---------------------------- MODULE Spec2Model ----------------------------
(***************************************************************************)
(* Model of the meditation ramp calendar (src/src/App.tsx, the component   *)
(* with manual per-day overrides, lines 394-949).                          *)
(*                                                                         *)
(* Text.  A string is a sequence of lexical units.  The units "," "\""     *)
(* " " and "\n" are the four characters the CSV code distinguishes; every  *)
(* other unit ("2024-01-01", "15", "0.4", "bad-line", ...) is a maximal    *)
(* run of characters that are none of those four.  splitCsvLine, trim and  *)
(* the quote-stripping replace treat all characters of such a run alike,   *)
(* so they are modelled unit by unit exactly as the code works character   *)
(* by character.                                                           *)
(*                                                                         *)
(* Time.  A Date is an instant, counted in hours from 2023-12-31T00:00Z.   *)
(* A date key "YYYY-MM-DD" is the number of its UTC day counted from       *)
(* 2023-12-31 (key 1 is "2024-01-01").  tz is the local zone's offset in   *)
(* hours east of UTC.                                                      *)
(*                                                                         *)
(* Numbers.  parseFloat results are kept in tenths (15 is 150, 0.4 is 4);  *)
(* a conversion yields a record that says whether the result is NaN.      *)
(***************************************************************************)
EXTENDS Integers, Sequences, FiniteSets, TLC

VARIABLES
  tz,               \* local timezone offset, hours east of UTC (environment)
  currentMonth,     \* useState(first day of today's month)
  storage,          \* localStorage: the three keys of the app
  draftPlanText,    \* useState('')
  plan,             \* useState<PlanMap>({})
  planErrors,       \* useState<string[]>([])
  completions,      \* useState<Record<string, boolean>>({})
  manualOverrides,  \* useState<PlanMap>({})
  editingDate,      \* useState<Date | null>(null)
  editingDuration,  \* useState('')
  editingError,     \* useState<string | null>(null)
  crashed,          \* a render threw: React has unmounted the tree
  lastOp            \* history: the handler that produced this state ("other"
                    \* for the handlers that only edit a field or open or
                    \* close the editor; a load right after an apply is
                    \* "loadAfterApply"; "closed" before the page is opened)

vars == <<tz, currentMonth, storage, draftPlanText, plan, planErrors, completions,
          manualOverrides, editingDate, editingDuration, editingError,
          crashed, lastOp>>

---------------------------------------------------------------------------
(* Bounds *)

\* calendar days 1..MaxDay of the displayed month are rendered as cells
MaxDay == 3

---------------------------------------------------------------------------
(* Program constants *)

DEFAULT_START_DURATION == 10
TARGET_DURATION == 60
DEFAULT_RAMP_DAYS == 30

HoursPerDay == 24

\* the unit spelling the ISO date of day d of the month (d = 1..4)
IsoDate(d) == <<"2024-01-01", "2024-01-02", "2024-01-03", "2024-01-04">>[d]

DateUnits == {IsoDate(d) : d \in 1..4}

\* the value of an ISO date-only string: midnight UTC of that day
DateUnitInstant(u) == HoursPerDay * (CHOOSE d \in 1..4 : IsoDate(d) = u)

NumberUnits == {"15", "20", "25", "0.4", "0", "-5"}

\* the result of a failed numeric or date conversion
NaN == [isNaN |-> TRUE, value |-> 0]

Num(v) == [isNaN |-> FALSE, value |-> v]

\* the number a numeric unit spells, in tenths
NumberTenths(u) ==
  CASE u = "15"  -> 150
    [] u = "20"  -> 200
    [] u = "25"  -> 250
    [] u = "0.4" -> 4
    [] u = "0"   -> 0
    [] u = "-5"  -> 0 - 50

\* Number.prototype.toString of an integer duration
NumberToString(n) == <<CHOOSE u \in NumberUnits : NumberTenths(u) = 10 * n>>

Whitespace == {" ", "\n"}

\* units in which /date/i and /duration/i find a match
MatchesDate(u) == u \in {"date", "Date"}
MatchesDuration(u) == u \in {"duration", "Duration"}

EmptyMap == [k \in {} |-> 0]

---------------------------------------------------------------------------
(* String helpers *)

RECURSIVE TrimLeft(_)
TrimLeft(s) ==
  IF s # <<>> /\ Head(s) \in Whitespace THEN TrimLeft(Tail(s)) ELSE s

RECURSIVE TrimRight(_)
TrimRight(s) ==
  IF s # <<>> /\ s[Len(s)] \in Whitespace
    THEN TrimRight(SubSeq(s, 1, Len(s) - 1))
    ELSE s

\* String.prototype.trim
Trim(s) == TrimRight(TrimLeft(s))

\* raw.split(/\r?\n/)
RECURSIVE SplitLinesFrom(_, _, _)
SplitLinesFrom(s, i, current) ==
  IF i > Len(s) THEN <<current>>
  ELSE IF s[i] = "\n" THEN <<current>> \o SplitLinesFrom(s, i + 1, <<>>)
  ELSE SplitLinesFrom(s, i + 1, Append(current, s[i]))

SplitLines(s) == SplitLinesFrom(s, 1, <<>>)

RECURSIVE SeqFilterNonEmpty(_)
SeqFilterNonEmpty(ss) ==
  IF ss = <<>> THEN <<>>
  ELSE IF Len(Head(ss)) > 0 THEN <<Head(ss)>> \o SeqFilterNonEmpty(Tail(ss))
  ELSE SeqFilterNonEmpty(Tail(ss))

\* rows: split, trim every line, drop the blank ones
Rows(raw) ==
  LET lines == SplitLines(raw)
  IN  SeqFilterNonEmpty([i \in 1..Len(lines) |-> Trim(lines[i])])

\* splitCsvLine: the for loop from position index on
RECURSIVE SplitCsvFrom(_, _, _, _, _)
SplitCsvFrom(line, index, cells, current, inQuotes) ==
  IF index > Len(line)
    THEN [cells |-> Append(cells, Trim(current)), inQuotes |-> inQuotes]
  ELSE IF line[index] = "\""
    THEN IF inQuotes /\ index + 1 <= Len(line) /\ line[index + 1] = "\""
           THEN SplitCsvFrom(line, index + 2, cells, Append(current, "\""), inQuotes)
           ELSE SplitCsvFrom(line, index + 1, cells, current, ~inQuotes)
  ELSE IF line[index] = "," /\ ~inQuotes
    THEN SplitCsvFrom(line, index + 1, Append(cells, Trim(current)), <<>>, inQuotes)
  ELSE SplitCsvFrom(line, index + 1, cells, Append(current, line[index]), inQuotes)

splitCsvLine(line) == SplitCsvFrom(line, 1, <<>>, <<>>, FALSE)

\* cell.replace(/^"|"$/g, '').trim()
NormalizeCell(cell) ==
  LET a == IF cell # <<>> /\ Head(cell) = "\"" THEN Tail(cell) ELSE cell
      b == IF a # <<>> /\ a[Len(a)] = "\"" THEN SubSeq(a, 1, Len(a) - 1) ELSE a
  IN  Trim(b)

\* Number.parseFloat: the number at the start of the string, else NaN
ParseFloat(s) ==
  LET t == TrimLeft(s)
  IN  IF t # <<>> /\ Head(t) \in NumberUnits
        THEN Num(NumberTenths(Head(t)))
        ELSE NaN

\* Math.round of a number in tenths: floor(x + 0.5)
MathRound(tenths) == (tenths + 5) \div 10

\* new Date(string): an ISO date-only string is midnight UTC; NaN otherwise
ParseDate(s) ==
  IF Len(s) = 1 /\ s[1] \in DateUnits THEN Num(DateUnitInstant(s[1])) ELSE NaN

---------------------------------------------------------------------------
(* Dates *)

\* getFullYear/getMonth/getDate: the local calendar day of an instant,
\* as its day number (1 is 2024-01-01)
LocalDay(date) == (date + tz) \div HoursPerDay

\* new Date(year, month, day): local midnight of a local calendar day
LocalMidnight(day) == HoursPerDay * day - tz

\* toISOString().split('T')[0]: the UTC calendar day of an instant
IsoDay(date) == date \div HoursPerDay

\* formatKey: setHours(0, 0, 0, 0) in local time, then the ISO (UTC) day
formatKey(date) == IsoDay(LocalMidnight(LocalDay(date)))

---------------------------------------------------------------------------
(* parsePlan *)

MapSet(map, key, value) ==
  [k \in DOMAIN map \cup {key} |-> IF k = key THEN value ELSE map[k]]

MapDelete(map, key) == [k \in DOMAIN map \ {key} |-> map[k]]

LineError(index, message, value) ==
  [line |-> index + 1, message |-> message, value |-> value]

\* the body of rows.forEach for the row at (0-based) index, applied to the
\* accumulators acc.map and acc.errors
ParseRow(line, index, acc) ==
  LET split == splitCsvLine(line)
      normalizedCells ==
        [i \in 1..Len(split.cells) |-> NormalizeCell(split.cells[i])]
      isHeader ==
        /\ index = 0
        /\ \E i \in 1..Len(normalizedCells) :
             \E j \in 1..Len(normalizedCells[i]) : MatchesDate(normalizedCells[i][j])
        /\ \E i \in 1..Len(normalizedCells) :
             \E j \in 1..Len(normalizedCells[i]) : MatchesDuration(normalizedCells[i][j])
      dateValue == normalizedCells[1]
      durationValue == normalizedCells[2]
      noteValue == IF Len(normalizedCells) >= 3 THEN normalizedCells[3] ELSE <<>>
      parsedDate == ParseDate(dateValue)
      parsedDuration == ParseFloat(durationValue)
      Fail(message, value) ==
        [acc EXCEPT !.errors = Append(@, LineError(index, message, value))]
  IN  IF split.inQuotes THEN Fail("missing closing quote.", <<>>)
      ELSE IF isHeader THEN acc
      ELSE IF Len(normalizedCells) < 2
        THEN Fail("expected at least two columns (date,duration).", <<>>)
      ELSE IF parsedDate.isNaN
        THEN Fail("could not understand date", dateValue)
      ELSE IF parsedDuration.isNaN \/ parsedDuration.value <= 0
        THEN Fail("duration should be a positive number.", <<>>)
      ELSE [acc EXCEPT !.map =
              MapSet(@, formatKey(parsedDate.value),
                     [duration |-> MathRound(parsedDuration.value),
                      note |-> noteValue])]

\* mutant: the first failing row ends the parse
RECURSIVE ParseRowsFrom_StopsAtError(_, _, _)
ParseRowsFrom_StopsAtError(rows, index, acc) ==
  IF index >= Len(rows) \/ acc.errors # <<>> THEN acc
  ELSE ParseRowsFrom_StopsAtError(rows, index + 1,
                                  ParseRow(rows[index + 1], index, acc))

RECURSIVE ParseRowsFrom(_, _, _)
ParseRowsFrom(rows, index, acc) ==
  IF index >= Len(rows) THEN acc
  ELSE ParseRowsFrom(rows, index + 1, ParseRow(rows[index + 1], index, acc))

\* parsePlan(raw): { map, errors }.  An absent note is the empty string
\* (the code never stores an empty note).
parsePlan(raw) ==
  IF Trim(raw) = <<>>
    THEN [map |-> EmptyMap, errors |-> <<>>]
    ELSE ParseRowsFrom(Rows(raw), 0, [map |-> EmptyMap, errors |-> <<>>])

---------------------------------------------------------------------------
(* Inputs *)

RECURSIVE JoinLines(_)
JoinLines(lines) ==
  IF Len(lines) = 0 THEN <<>>
  ELSE IF Len(lines) = 1 THEN lines[1]
  ELSE lines[1] \o <<"\n">> \o JoinLines(Tail(lines))

\* SAMPLE_PLAN, cut to its header and the rows of two days
SAMPLE_PLAN ==
  JoinLines(<<
    <<"date", ",", "duration", ",", "note">>,
    <<IsoDate(1), ",", "15", ",", "\"", "Ease", " ", "in", "\"">>,
    <<IsoDate(2), ",", "25", ",">> >>)

\* a row whose duration rounds to zero
TextFraction == <<IsoDate(1), ",", "0.4">>

\* a row that cannot be parsed, and a valid row after it
TextBadLine ==
  JoinLines(<< <<"bad-line", ",", ",">>, <<IsoDate(2), ",", "20">> >>)

\* what the user may have in the plan textarea
DraftTexts == {<<>>, SAMPLE_PLAN, TextFraction, TextBadLine}

\* what the user may have in the day editor's duration field
EditorInputs == {<<>>, <<"20">>, <<"0.4">>}

\* zones west of, at and east of UTC
TimezoneOffsets == {0 - 5, 0, 2}

\* the days the calendar renders, and the Date of each cell
CellDays == 1..MaxDay

CellDate(day) == LocalMidnight(day)

CellDates == {CellDate(day) : day \in CellDays}

\* the cells the user clicks to toggle, and those the user opens to edit
ToggledDates == {CellDate(1)}

EditedDates == {CellDate(1), CellDate(2)}

---------------------------------------------------------------------------
(* localStorage *)

Absent == [tag |-> "absent"]

\* a stored string holding the text t
TextItem(t) == [tag |-> "text", text |-> t]

\* JSON.stringify(value)
JsonStringify(value) == [tag |-> "json", value |-> value]

\* a stored string that JSON.parse rejects
MalformedItem == [tag |-> "malformed"]

\* the stored string "null", which JSON.parse accepts
NullItem == [tag |-> "null"]

\* if (stored): the item exists and is not the empty string
Truthy(item) == item.tag # "absent" /\ ~(item.tag = "text" /\ item.text = <<>>)

EmptyStorage == [plan |-> Absent, completions |-> Absent, manual |-> Absent]

\* mutant: the effect writes the map even when it is empty
PersistManual_AlwaysWrites(st, overrides) ==
  [st EXCEPT !.manual = JsonStringify(overrides)]

\* the manualOverrides persistence effect
PersistManual(st, overrides) ==
  [st EXCEPT !.manual =
     IF Cardinality(DOMAIN overrides) > 0 THEN JsonStringify(overrides) ELSE Absent]

\* the completions persistence effect
PersistCompletions(st, done) == [st EXCEPT !.completions = JsonStringify(done)]

---------------------------------------------------------------------------
(* Mount: first render, the three effects, and the render after them *)

\* editingDate and editingError when null
NoDate == 0 - 1
NoError == "null"

\* the state useState gives each hook at construction
InitialState ==
  [draftPlanText |-> <<>>, plan |-> EmptyMap, planErrors |-> <<>>,
   completions |-> EmptyMap, manualOverrides |-> EmptyMap,
   editingDate |-> NoDate, editingDuration |-> <<>>, editingError |-> NoError]

\* the load effect's try { JSON.parse } catch for one key: the map to set,
\* the initial empty map when nothing is set, and whether null was set
LoadedMap(item) ==
  IF Truthy(item) /\ item.tag = "json" THEN item.value ELSE EmptyMap

LoadedNull(item) == Truthy(item) /\ item.tag = "null"

\* The state and storage after mounting on the storage st.  The effects of
\* the first commit run in order: the load effect reads st, then the two
\* persistence effects write the initial (empty) maps.  The render that
\* follows uses the loaded values: it throws when a loaded map is null
\* (completions[key], Object.entries(manualOverrides)); otherwise the
\* persistence effects run again with the loaded maps.
Mount(st) ==
  LET stored == Truthy(st.plan)
      parsed == IF stored THEN parsePlan(st.plan.text)
                ELSE [map |-> EmptyMap, errors |-> <<>>]
      loaded ==
        [InitialState EXCEPT
           !.draftPlanText = IF stored THEN st.plan.text ELSE SAMPLE_PLAN,
           !.plan = parsed.map,
           !.planErrors = parsed.errors,
           !.completions = LoadedMap(st.completions),
           !.manualOverrides = LoadedMap(st.manual)]
      afterFirstCommit ==
        PersistManual(PersistCompletions(st, EmptyMap), EmptyMap)
      throws == LoadedNull(st.completions) \/ LoadedNull(st.manual)
  IN  IF throws
        THEN [state |-> InitialState, storage |-> afterFirstCommit,
              crashed |-> TRUE]
        ELSE [state |-> loaded,
              storage |-> PersistManual(
                            PersistCompletions(afterFirstCommit, loaded.completions),
                            loaded.manualOverrides),
              crashed |-> FALSE]

---------------------------------------------------------------------------
(* Derived values of a render *)

\* Object.entries(overrides).forEach over the entries whose keys are left
RECURSIVE MergeEntries(_, _, _)
MergeEntries(merged, overrides, keys) ==
  IF keys = {} THEN merged
  ELSE LET key == CHOOSE k \in keys : TRUE
           entry == overrides[key]
       IN  MergeEntries(IF entry.duration > 0
                          THEN MapSet(merged, key, entry)
                          ELSE MapDelete(merged, key),
                        overrides, keys \ {key})

\* mutant: an override with duration <= 0 is skipped, not deleted
CombinedPlan_NoDelete(parsed, overrides) ==
  MergeEntries(parsed, overrides,
               {k \in DOMAIN overrides : overrides[k].duration > 0})

\* combinedPlan: a copy of the parsed plan, then every override entry
CombinedPlan(parsed, overrides) ==
  MergeEntries(parsed, overrides, DOMAIN overrides)

combinedPlan == CombinedPlan(plan, manualOverrides)

\* mutant: only the parsed plan counts as plan data
hasCustomPlanData_ParsedOnly == Cardinality(DOMAIN plan) > 0

\* planEntryList.length > 0
hasCustomPlanData == Cardinality(DOMAIN combinedPlan) > 0

\* The calendar of JavaScript's Date.  A month is counted from January
\* 2024 (month 0); day 1 is 2024-01-01 and day 0, 2023-12-31, is a Sunday.
IsLeapYear(year) == (year % 4 = 0 /\ year % 100 # 0) \/ year % 400 = 0

DaysInMonth(month) ==
  IF month % 12 = 1
    THEN (IF IsLeapYear(2024 + (month \div 12)) THEN 29 ELSE 28)
    ELSE IF month % 12 \in {3, 5, 8, 10} THEN 30 ELSE 31

\* the leap years before a year
LeapYearsBefore(year) ==
  ((year - 1) \div 4) - ((year - 1) \div 100) + ((year - 1) \div 400)

\* the days of a common year before each of its months
DaysBeforeMonth == <<0, 31, 59, 90, 120, 151, 181, 212, 243, 273, 304, 334>>

\* the day number of the first day of a month
FirstDay(month) ==
  LET year == 2024 + (month \div 12)
  IN  1 + 365 * (year - 2024) + (LeapYearsBefore(year) - LeapYearsBefore(2024))
        + DaysBeforeMonth[(month % 12) + 1]
        + (IF month % 12 >= 2 /\ IsLeapYear(year) THEN 1 ELSE 0)

RECURSIVE MonthUp(_, _)
MonthUp(month, day) ==
  IF day < FirstDay(month + 1) THEN month ELSE MonthUp(month + 1, day)

RECURSIVE MonthDown(_, _)
MonthDown(month, day) ==
  IF day >= FirstDay(month) THEN month ELSE MonthDown(month - 1, day)

\* the month a day number falls in, searched from the month it would fall
\* in if every month had 31 days
MonthOf(day) ==
  LET guess == (day - 1) \div 31
  IN  IF FirstDay(guess) <= day THEN MonthUp(guess, day)
      ELSE MonthDown(guess - 1, day)

\* date.getFullYear(), date.getMonth(), date.getDate(), date.getDay():
\* the fields of the Date's local day
getFullYear(date) == 2024 + (MonthOf(LocalDay(date)) \div 12)
getMonth(date) == MonthOf(LocalDay(date)) % 12
getDate(date) == LocalDay(date) - FirstDay(MonthOf(LocalDay(date))) + 1
getDay(date) == LocalDay(date) % 7

\* new Date(year, month, dayOfMonth): local midnight; a month or a day of
\* the month out of range carries over into the neighbouring months
NewDate(year, month, dayOfMonth) ==
  LocalMidnight(FirstDay(12 * (year - 2024) + month) + dayOfMonth - 1)

\* new Date(): the page is used on 2024-01-01, at noon UTC
Now == HoursPerDay + 12

\* the useState initializer of currentMonth
InitialMonth == NewDate(getFullYear(Now), getMonth(Now), 1)

\* mutant: the cells start at the first of the month
buildCalendar_NoLeadingOffset(reference) ==
  LET startOfMonth == NewDate(getFullYear(reference), getMonth(reference), 1)
      endOfMonth == NewDate(getFullYear(reference), getMonth(reference) + 1, 0)
      leadingEmptyDays == getDay(startOfMonth)
      totalDays == getDate(endOfMonth)
      totalCells == ((leadingEmptyDays + totalDays + 6) \div 7) * 7
  IN  [cell \in 1..totalCells |->
         LET index == cell - 1
             dayOffset == index
             date == NewDate(getFullYear(reference), getMonth(reference),
                             dayOffset + 1)
         IN  [date |-> date,
              isCurrentMonth |-> getMonth(date) = getMonth(reference)]]

\* buildCalendar(reference): the cells, index 0 of the code being cell 1
buildCalendar(reference) ==
  LET startOfMonth == NewDate(getFullYear(reference), getMonth(reference), 1)
      endOfMonth == NewDate(getFullYear(reference), getMonth(reference) + 1, 0)
      leadingEmptyDays == getDay(startOfMonth)
      totalDays == getDate(endOfMonth)
      \* Math.ceil((leadingEmptyDays + totalDays) / 7) * 7
      totalCells == ((leadingEmptyDays + totalDays + 6) \div 7) * 7
  IN  [cell \in 1..totalCells |->
         LET index == cell - 1
             dayOffset == index - leadingEmptyDays
             date == NewDate(getFullYear(reference), getMonth(reference),
                             dayOffset + 1)
         IN  [date |-> date,
              isCurrentMonth |-> getMonth(date) = getMonth(reference)]]

\* differenceInDays(a, b): both Dates' local days taken as UTC days
differenceInDays(a, b) == LocalDay(a) - LocalDay(b)

\* mutant: the day index is the weekday (getDay for getDate)
getDefaultDuration_WeekdayIndex(date) ==
  LET dayIndex == getDay(date)
      denominator == 5 * (DEFAULT_RAMP_DAYS - 1)
      numerator == DEFAULT_START_DURATION * (DEFAULT_RAMP_DAYS - 1)
                     + dayIndex * (TARGET_DURATION - DEFAULT_START_DURATION)
      rounded == ((2 * numerator + denominator) \div (2 * denominator)) * 5
      capped == IF rounded < TARGET_DURATION THEN rounded ELSE TARGET_DURATION
  IN  IF DEFAULT_RAMP_DAYS <= 1 THEN TARGET_DURATION
      ELSE IF capped > DEFAULT_START_DURATION THEN capped
      ELSE DEFAULT_START_DURATION

\* getDefaultDuration(date)
getDefaultDuration(date) ==
  LET monthStart == NewDate(getFullYear(date), getMonth(date), 1)
      dayIndex == IF differenceInDays(date, monthStart) > 0
                    THEN differenceInDays(date, monthStart) ELSE 0
      \* Math.round(projected / 5) with projected =
      \* start + dayIndex * (target - start) / (rampDays - 1)
      denominator == 5 * (DEFAULT_RAMP_DAYS - 1)
      numerator == DEFAULT_START_DURATION * (DEFAULT_RAMP_DAYS - 1)
                     + dayIndex * (TARGET_DURATION - DEFAULT_START_DURATION)
      rounded == ((2 * numerator + denominator) \div (2 * denominator)) * 5
      capped == IF rounded < TARGET_DURATION THEN rounded ELSE TARGET_DURATION
  IN  IF DEFAULT_RAMP_DAYS <= 1 THEN TARGET_DURATION
      ELSE IF capped > DEFAULT_START_DURATION THEN capped
      ELSE DEFAULT_START_DURATION

\* the text of a cell's day-duration span: <<n>> is "n min", <<>> is ''
durationText(date) ==
  LET key == formatKey(date)
  IN  IF key \in DOMAIN manualOverrides THEN <<manualOverrides[key].duration>>
      ELSE IF key \in DOMAIN plan THEN <<plan[key].duration>>
      ELSE IF hasCustomPlanData THEN <<>>
      ELSE <<getDefaultDuration(date)>>

\* the text of a cell's day-note span, <<>> when the span is not rendered:
\* manualEntry?.note ?? planEntry?.note
noteText(date) ==
  LET key == formatKey(date)
  IN  IF key \in DOMAIN manualOverrides /\ manualOverrides[key].note # <<>>
        THEN manualOverrides[key].note
      ELSE IF key \in DOMAIN plan THEN plan[key].note
      ELSE <<>>

---------------------------------------------------------------------------
(* Handlers *)

\* the component is mounted and has not been torn down by a render error
Running == ~crashed /\ lastOp # "closed"

\* textarea onChange
SetDraftPlanText(text) ==
  /\ Running
  /\ draftPlanText' = text
  /\ lastOp' = "other"
  /\ UNCHANGED <<tz, currentMonth, storage, plan, planErrors, completions, manualOverrides,
                 editingDate, editingDuration, editingError, crashed>>

\* prev[key], read as a condition: an absent key is undefined, so falsy
IsCompleted(done, key) == key \in DOMAIN done /\ done[key]

\* mutant: the updater marks the day completed whatever it was
ToggleCompletion_AlwaysTrue(prev, key) == MapSet(prev, key, TRUE)

\* the updater (prev) => ({ ...prev, [key]: !prev[key] })
ToggleCompletion(prev, key) == MapSet(prev, key, ~IsCompleted(prev, key))

handleToggleDay(date) ==
  LET key == formatKey(date)
      next == ToggleCompletion(completions, key)
  IN  /\ Running
      /\ completions' = next
      /\ storage' = PersistCompletions(storage, next)
      /\ lastOp' = "toggle"
      /\ UNCHANGED <<tz, currentMonth, draftPlanText, plan, planErrors, manualOverrides,
                     editingDate, editingDuration, editingError, crashed>>

handleStartEditing(date) ==
  LET key == formatKey(date)
  IN  /\ Running
      /\ editingDate' = date
      /\ editingDuration' =
           IF key \in DOMAIN manualOverrides
             THEN NumberToString(manualOverrides[key].duration)
           ELSE IF key \in DOMAIN plan THEN NumberToString(plan[key].duration)
           ELSE <<>>
      /\ editingError' = NoError
      /\ lastOp' = "other"
      /\ UNCHANGED <<tz, currentMonth, storage, draftPlanText, plan, planErrors, completions,
                     manualOverrides, crashed>>

\* the editor is rendered only while editingDate is set
EditorOpen == Running /\ editingDate # NoDate

handleCloseEditor ==
  /\ EditorOpen
  /\ editingDate' = NoDate
  /\ editingDuration' = <<>>
  /\ editingError' = NoError
  /\ lastOp' = "other"
  /\ UNCHANGED <<tz, currentMonth, storage, draftPlanText, plan, planErrors, completions,
                 manualOverrides, crashed>>

\* the duration input's onChange
SetEditingDuration(text) ==
  /\ EditorOpen
  /\ editingDuration' = text
  /\ editingError' = NoError
  /\ lastOp' = "other"
  /\ UNCHANGED <<tz, currentMonth, storage, draftPlanText, plan, planErrors, completions,
                 manualOverrides, editingDate, crashed>>

\* setManualOverrides(next), the persistence effect, and handleCloseEditor
SetManualAndClose(next) ==
  /\ manualOverrides' = next
  /\ storage' = PersistManual(storage, next)
  /\ editingDate' = NoDate
  /\ editingDuration' = <<>>
  /\ editingError' = NoError

handleSaveManualEntry ==
  LET key == formatKey(editingDate)
      parsedDuration == ParseFloat(editingDuration)
  IN  /\ EditorOpen
      /\ lastOp' = "saveManual"
      /\ IF Trim(editingDuration) = <<>>
           THEN SetManualAndClose(MapDelete(manualOverrides, key))
         ELSE IF parsedDuration.isNaN \/ parsedDuration.value <= 0
           THEN /\ editingError' = "Duration must be a positive number."
                /\ UNCHANGED <<storage, manualOverrides, editingDate, editingDuration>>
         ELSE SetManualAndClose(
                MapSet(manualOverrides, key,
                       [duration |-> MathRound(parsedDuration.value), note |-> <<>>]))
      /\ UNCHANGED <<tz, currentMonth, draftPlanText, plan, planErrors, completions, crashed>>

handleClearManualEntry ==
  /\ EditorOpen
  /\ SetManualAndClose(MapDelete(manualOverrides, formatKey(editingDate)))
  /\ lastOp' = "clearManual"
  /\ UNCHANGED <<tz, currentMonth, draftPlanText, plan, planErrors, completions, crashed>>

\* mutant: the applied text is not written to storage
handleApplyPlan_NoPersist ==
  LET parsed == parsePlan(draftPlanText)
  IN  /\ Running
      /\ plan' = parsed.map
      /\ planErrors' = parsed.errors
      /\ lastOp' = "apply"
      /\ UNCHANGED <<tz, currentMonth, storage, draftPlanText, completions, manualOverrides,
                     editingDate, editingDuration, editingError, crashed>>

handleApplyPlan ==
  LET parsed == parsePlan(draftPlanText)
  IN  /\ Running
      /\ plan' = parsed.map
      /\ planErrors' = parsed.errors
      /\ storage' = [storage EXCEPT !.plan = TextItem(draftPlanText)]
      /\ lastOp' = "apply"
      /\ UNCHANGED <<tz, currentMonth, draftPlanText, completions, manualOverrides,
                     editingDate, editingDuration, editingError, crashed>>

\* mutant: the reset also clears the completions
handleResetPlan_ClearsCompletions ==
  /\ Running
  /\ plan' = EmptyMap
  /\ planErrors' = <<>>
  /\ draftPlanText' = <<>>
  /\ manualOverrides' = EmptyMap
  /\ completions' = EmptyMap
  /\ storage' = PersistCompletions(
                  PersistManual([storage EXCEPT !.plan = Absent], EmptyMap),
                  EmptyMap)
  /\ editingDate' = NoDate
  /\ editingDuration' = <<>>
  /\ editingError' = NoError
  /\ lastOp' = "reset"
  /\ UNCHANGED <<tz, currentMonth, crashed>>

\* mutant: the reset leaves the manual overrides alone
handleResetPlan_KeepsOverrides ==
  /\ Running
  /\ plan' = EmptyMap
  /\ planErrors' = <<>>
  /\ draftPlanText' = <<>>
  /\ storage' = [storage EXCEPT !.plan = Absent]
  /\ editingDate' = NoDate
  /\ editingDuration' = <<>>
  /\ editingError' = NoError
  /\ lastOp' = "reset"
  /\ UNCHANGED <<tz, currentMonth, completions, manualOverrides, crashed>>

handleResetPlan ==
  LET parsed == parsePlan(<<>>)
  IN  /\ Running
      /\ plan' = parsed.map
      /\ planErrors' = parsed.errors
      /\ draftPlanText' = <<>>
      /\ manualOverrides' = EmptyMap
      /\ storage' = PersistManual([storage EXCEPT !.plan = Absent], EmptyMap)
      /\ editingDate' = NoDate
      /\ editingDuration' = <<>>
      /\ editingError' = NoError
      /\ lastOp' = "reset"
      /\ UNCHANGED <<tz, currentMonth, completions, crashed>>

\* the state variables after mounting on the storage st
Mounted(st) ==
  LET m == Mount(st)
  IN  /\ storage' = m.storage
      /\ crashed' = m.crashed
      /\ draftPlanText' = m.state.draftPlanText
      /\ plan' = m.state.plan
      /\ planErrors' = m.state.planErrors
      /\ completions' = m.state.completions
      /\ manualOverrides' = m.state.manualOverrides
      /\ editingDate' = m.state.editingDate
      /\ editingDuration' = m.state.editingDuration
      /\ editingError' = m.state.editingError
      /\ currentMonth' = InitialMonth

\* the page is loaded again: the component mounts on the current storage
Reload ==
  /\ Mounted(storage)
  /\ lastOp' = IF lastOp = "apply" THEN "loadAfterApply" ELSE "load"
  /\ UNCHANGED tz

---------------------------------------------------------------------------
(* Specification: the app opened on empty storage *)

Init ==
  /\ tz \in TimezoneOffsets
  /\ currentMonth = InitialMonth
  /\ LET m == Mount(EmptyStorage)
     IN  /\ storage = m.storage
         /\ crashed = m.crashed
         /\ draftPlanText = m.state.draftPlanText
         /\ plan = m.state.plan
         /\ planErrors = m.state.planErrors
         /\ completions = m.state.completions
         /\ manualOverrides = m.state.manualOverrides
         /\ editingDate = m.state.editingDate
         /\ editingDuration = m.state.editingDuration
         /\ editingError = m.state.editingError
  /\ lastOp = "load"

Next ==
  \/ \E text \in DraftTexts : SetDraftPlanText(text)
  \/ \E date \in ToggledDates : handleToggleDay(date)
  \/ \E date \in EditedDates : handleStartEditing(date)
  \/ handleCloseEditor
  \/ \E text \in EditorInputs : SetEditingDuration(text)
  \/ handleSaveManualEntry
  \/ handleClearManualEntry
  \/ handleApplyPlan
  \/ handleResetPlan
  \/ Reload

Spec == Init /\ [][Next]_vars

---------------------------------------------------------------------------
(* Specification: the page opened on whatever an earlier session, another  *)
(* page of the origin or the developer tools left in localStorage          *)

StoredCompletions ==
  {Absent, JsonStringify([k \in {1} |-> TRUE]), MalformedItem, NullItem}

StoredManual ==
  {Absent, JsonStringify([k \in {1} |-> [duration |-> 20, note |-> <<>>]]),
   MalformedItem, NullItem}

StoredPlan == {Absent, TextItem(TextBadLine)}

InitStored ==
  /\ tz \in TimezoneOffsets
  /\ currentMonth = InitialMonth
  /\ storage \in [plan : StoredPlan, completions : StoredCompletions,
                  manual : StoredManual]
  /\ crashed = FALSE
  /\ draftPlanText = InitialState.draftPlanText
  /\ plan = InitialState.plan
  /\ planErrors = InitialState.planErrors
  /\ completions = InitialState.completions
  /\ manualOverrides = InitialState.manualOverrides
  /\ editingDate = InitialState.editingDate
  /\ editingDuration = InitialState.editingDuration
  /\ editingError = InitialState.editingError
  /\ lastOp = "closed"

SpecStored == InitStored /\ [][Next]_vars

---------------------------------------------------------------------------
(* Claims *)

PlanOps == {"apply", "reset", "saveManual", "clearManual"}

\* C1: when the page is reloaded right after 'Apply plan', the parsed plan
\* map (and so the merged plan) after the reload equals the one in effect
\* right after the apply, and the reload does not fail.
C1_ReloadAfterApply ==
  [][(lastOp = "apply" /\ lastOp' = "loadAfterApply") =>
       /\ ~crashed'
       /\ plan' = plan
       /\ combinedPlan' = combinedPlan]_vars

\* a reload that followed an apply of a text with valid rows
C1_Witness ==
  /\ lastOp = "loadAfterApply"
  /\ plan # EmptyMap
  /\ storage.plan.tag = "text"

\* C2: every entry of the parsed plan map, of the manual override map and
\* of the persisted manual-plan payload has a duration >= 1.
C2_PositiveDurations ==
  /\ \A k \in DOMAIN plan : plan[k].duration >= 1
  /\ \A k \in DOMAIN manualOverrides : manualOverrides[k].duration >= 1
  /\ storage.manual.tag = "json" =>
       \A k \in DOMAIN storage.manual.value : storage.manual.value[k].duration >= 1

\* C3: once a single-day Save, a single-day Clear or a plan reset has taken
\* effect, the manual-plan key is absent exactly when the override map is
\* empty and otherwise holds the encoding of the current override map.
C3_ManualPersisted ==
  lastOp \in {"saveManual", "clearManual", "reset"} =>
    /\ (storage.manual = Absent) <=> (DOMAIN manualOverrides = {})
    /\ DOMAIN manualOverrides # {} =>
         storage.manual = JsonStringify(manualOverrides)

\* a Save that stored an override, which is now persisted
C3_Witness ==
  /\ lastOp = "saveManual"
  /\ DOMAIN manualOverrides # {}
  /\ storage.manual.tag = "json"

\* C4: 'Apply plan', plan 'Clear', single-day Save and single-day Clear
\* change neither the completion map nor its persisted value.
C4_PlanOpsKeepCompletions ==
  [][lastOp' \in PlanOps =>
       /\ completions' = completions
       /\ storage'.completions = storage.completions]_vars

\* a plan reset in a session that has completions
C4_Witness ==
  /\ lastOp = "reset"
  /\ \E k \in DOMAIN completions : completions[k]

\* C5: right after plan 'Clear' the parsed plan, the override map and the
\* error list are empty, the day editor is closed, and the plan-text and
\* manual-plan keys are absent from storage.
C5_ResetClears ==
  lastOp = "reset" =>
    /\ plan = EmptyMap
    /\ manualOverrides = EmptyMap
    /\ planErrors = <<>>
    /\ editingDate = NoDate
    /\ storage.plan = Absent
    /\ storage.manual = Absent

\* a state produced by plan 'Clear'
C5_Witness == lastOp = "reset" /\ ~crashed

\* the keys a map of the model can hold
Keys == 0..(MaxDay + 1)

\* C6: for each key k the merged map holds the override when the override's
\* duration is > 0, lacks k when the override's duration is <= 0 (even if
\* the parsed plan has k), and otherwise holds what the parsed plan holds.
C6_MergeRule ==
  \A k \in Keys :
    IF k \in DOMAIN manualOverrides
      THEN IF manualOverrides[k].duration > 0
             THEN k \in DOMAIN combinedPlan /\ combinedPlan[k] = manualOverrides[k]
             ELSE k \notin DOMAIN combinedPlan
      ELSE IF k \in DOMAIN plan
             THEN k \in DOMAIN combinedPlan /\ combinedPlan[k] = plan[k]
             ELSE k \notin DOMAIN combinedPlan

\* an override with duration <= 0 on a day the parsed plan lists, beside an
\* override with duration > 0
C6_Witness ==
  /\ \E k \in DOMAIN manualOverrides :
       manualOverrides[k].duration <= 0 /\ k \in DOMAIN plan
  /\ \E k \in DOMAIN manualOverrides : manualOverrides[k].duration > 0

\* a cell's day has neither a manual override nor a parsed plan entry
Unplanned(date) ==
  /\ formatKey(date) \notin DOMAIN manualOverrides
  /\ formatKey(date) \notin DOMAIN plan

Listed(day) ==
  /\ storage.plan.tag = "text"
  /\ \E i \in 1..Len(storage.plan.text) : storage.plan.text[i] = IsoDate(day)

\* C8: after a custom plan has been applied, every cell whose day is not
\* listed in the plan (and has no entry of its own) shows the default ramp
\* duration of its day.
C8_UnlistedUseRamp ==
  (lastOp = "apply" /\ plan # EmptyMap) =>
    \A day \in CellDays :
      (~Listed(day) /\ Unplanned(CellDate(day))) =>
        durationText(CellDate(day)) = <<getDefaultDuration(CellDate(day))>>

\* the completion map after handleToggleDay has run twice for one date
ToggledTwice(done, date) ==
  ToggleCompletion(ToggleCompletion(done, formatKey(date)), formatKey(date))

\* C9 as stated: two toggles of a date give back the completion map, and
\* the persisted value is the one persisted for it.
C9_DoubleToggleRestores ==
  \A date \in CellDates :
    /\ ToggledTwice(completions, date) = completions
    /\ PersistCompletions(storage, ToggledTwice(completions, date)).completions
         = PersistCompletions(storage, completions).completions

\* C9, amended: two toggles of a date give a map in which every date is
\* completed exactly when it was (an absent key reads as not completed); the
\* map and its persisted value are the original ones when the date was
\* already a key, and gain the entry date |-> false when it was not.
C9_DoubleToggleEquivalent ==
  \A date \in CellDates :
    LET twice == ToggledTwice(completions, date)
        key == formatKey(date)
    IN  /\ \A k \in Keys : IsCompleted(twice, k) = IsCompleted(completions, k)
        /\ key \in DOMAIN completions =>
             /\ twice = completions
             /\ PersistCompletions(storage, twice).completions
                  = PersistCompletions(storage, completions).completions
        /\ key \notin DOMAIN completions =>
             twice = MapSet(completions, key, FALSE)

\* a date toggled on and off again: its key is now stored as false
C9_Witness ==
  /\ lastOp = "toggle"
  /\ \E k \in DOMAIN completions : ~completions[k]

\* the stored item is there and JSON.parse does not give a map
Unreadable(item) == item.tag \in {"malformed", "null"}

\* C10: a load that finds an unreadable completions or manual-plan item
\* leaves that map empty, restores the plan and the other map as stored,
\* and the app keeps running.
C10_UnreadableDegrades ==
  [][(lastOp' \in {"load", "loadAfterApply"}
        /\ (Unreadable(storage.completions) \/ Unreadable(storage.manual))) =>
       /\ ~crashed'
       /\ Unreadable(storage.completions) => completions' = EmptyMap
       /\ Unreadable(storage.manual) => manualOverrides' = EmptyMap
       /\ ~Unreadable(storage.completions) =>
            completions' = LoadedMap(storage.completions)
       /\ ~Unreadable(storage.manual) =>
            manualOverrides' = LoadedMap(storage.manual)
       /\ Truthy(storage.plan) => plan' = parsePlan(storage.plan.text).map]_vars

---------------------------------------------------------------------------
(* Specification: parsePlan applied to plan texts built from a catalogue   *)
(* of lines.  Every catalogue line carries, beside its text, what the CSV  *)
(* format makes of it: its kind, and for a valid row its day, duration and *)
(* note.                                                                   *)

\* the most lines a plan text of this specification has
MaxRows == 3

Row(text, kind, day, duration, note, dateCell) ==
  [text |-> text, kind |-> kind, day |-> day, duration |-> duration,
   note |-> note, dateCell |-> dateCell]

LineHeader ==
  Row(<<"date", ",", "duration", ",", "note">>, "header", 0, 0, <<>>, <<"date">>)

\* 2024-01-01,15,"Ease, in"
LineQuotedNote ==
  Row(<<IsoDate(1), ",", "15", ",", "\"", "Ease", ",", " ", "in", "\"">>,
      "valid", 1, 15, <<"Ease", ",", " ", "in">>, <<IsoDate(1)>>)

\* 2024-01-02,25,
LinePlain == Row(<<IsoDate(2), ",", "25", ",">>, "valid", 2, 25, <<>>, <<IsoDate(2)>>)

\* bad-line,,
LineBadDate == Row(<<"bad-line", ",", ",">>, "date", 0, 0, <<>>, <<"bad-line">>)

\* 2024-01-01,15,"oops
LineOpenQuote ==
  Row(<<IsoDate(1), ",", "15", ",", "\"", "oops">>, "quote", 0, 0, <<>>, <<>>)

\* 2024-01-01
LineOneColumn == Row(<<IsoDate(1)>>, "columns", 0, 0, <<>>, <<>>)

\* 2024-01-02,-5
LineBadDuration == Row(<<IsoDate(2), ",", "-5">>, "duration", 0, 0, <<>>, <<>>)

\* a line of one space
LineBlank == Row(<<" ">>, "blank", 0, 0, <<>>, <<>>)

\* 2024-01-02,20,"say ""hi"" ok"
LineQuoteInside ==
  Row(<<IsoDate(2), ",", "20", ",",
        "\"", "say", " ", "\"", "\"", "hi", "\"", "\"", " ", "ok", "\"">>,
      "valid", 2, 20, <<"say", " ", "\"", "hi", "\"", " ", "ok">>, <<IsoDate(2)>>)

\* 2024-01-01,20,"""hi"" there"
LineQuoteFirst ==
  Row(<<IsoDate(1), ",", "20", ",",
        "\"", "\"", "\"", "hi", "\"", "\"", " ", "there", "\"">>,
      "valid", 1, 20, <<"\"", "hi", "\"", " ", "there">>, <<IsoDate(1)>>)

Catalogue ==
  {LineHeader, LineQuotedNote, LinePlain, LineBadDate, LineOpenQuote,
   LineOneColumn, LineBadDuration, LineBlank, LineQuoteInside, LineQuoteFirst}

\* the texts of one to MaxRows catalogue lines
ParseTexts ==
  {JoinLines([i \in 1..Len(ls) |-> ls[i].text]) :
     ls \in UNION {[1..n -> Catalogue] : n \in 0..MaxRows}}

\* the app opened on empty storage, a text pasted into the plan textarea
InitParse ==
  /\ tz \in TimezoneOffsets
  /\ currentMonth = InitialMonth
  /\ storage = Mount(EmptyStorage).storage
  /\ crashed = FALSE
  /\ draftPlanText \in ParseTexts
  /\ plan = InitialState.plan
  /\ planErrors = InitialState.planErrors
  /\ completions = InitialState.completions
  /\ manualOverrides = InitialState.manualOverrides
  /\ editingDate = InitialState.editingDate
  /\ editingDuration = InitialState.editingDuration
  /\ editingError = InitialState.editingError
  /\ lastOp = "other"

NextParse == handleApplyPlan

SpecParse == InitParse /\ [][NextParse]_vars

\* the catalogue line with the given text
CatalogueLine(text) == CHOOSE line \in Catalogue : line.text = text

\* the non-blank lines of a text, as catalogue lines
LabelledRows(text) ==
  LET rows == Rows(text)
  IN  [i \in 1..Len(rows) |-> CatalogueLine(rows[i])]

\* the kind of the i-th non-blank line: a header row is a header only first
KindAt(rows, i) ==
  IF rows[i].kind = "header" /\ i > 1 THEN "date" ELSE rows[i].kind

ErrorMessage(kind) ==
  CASE kind = "quote" -> "missing closing quote."
    [] kind = "columns" -> "expected at least two columns (date,duration)."
    [] kind = "date" -> "could not understand date"
    [] kind = "duration" -> "duration should be a positive number."

\* the errors of the failing lines among the first n, in line order
RECURSIVE ExpectedErrors(_, _)
ExpectedErrors(rows, n) ==
  IF n = 0 THEN <<>>
  ELSE IF KindAt(rows, n) \in {"valid", "header"} THEN ExpectedErrors(rows, n - 1)
  ELSE Append(ExpectedErrors(rows, n - 1),
              [line |-> n, message |-> ErrorMessage(KindAt(rows, n)),
               value |-> IF KindAt(rows, n) = "date" THEN rows[n].dateCell ELSE <<>>])

\* the key under which the row of a day is stored
RowKey(day) == formatKey(HoursPerDay * day)

\* C11: of the non-blank lines of the applied text, every failing line adds
\* exactly one error, in line order, and stores nothing; every valid line
\* stores its entry (the last line of a day wins); the errors, the accepted
\* rows and the skipped header add up to the non-blank lines.
C11_ErrorsLocal ==
  lastOp = "apply" =>
    LET rows == LabelledRows(draftPlanText)
        valid == {i \in 1..Len(rows) : KindAt(rows, i) = "valid"}
        header == IF Len(rows) > 0 /\ KindAt(rows, 1) = "header" THEN 1 ELSE 0
    IN  /\ planErrors = ExpectedErrors(rows, Len(rows))
        /\ DOMAIN plan = {RowKey(rows[i].day) : i \in valid}
        /\ \A i \in valid :
             (\A j \in valid : rows[j].day = rows[i].day => j <= i) =>
               plan[RowKey(rows[i].day)].duration = rows[i].duration
        /\ Len(planErrors) + Cardinality(valid) + header = Len(rows)

\* a failing line between two valid rows of different days
C11_Witness ==
  /\ lastOp = "apply"
  /\ Len(planErrors) = 1
  /\ planErrors[1].line = 2
  /\ Cardinality(DOMAIN plan) = 2

\* hours after local midnight at which a Date of a day is taken
TimesOfDay == {0, 12, 23}

\* C12: whatever the time of day and the zone, the key of a Date is the
\* local calendar day the Date falls on.
C12_KeyIsLocalDay ==
  \A day \in CellDays : \A hours \in TimesOfDay :
    formatKey(CellDate(day) + hours) = day

---------------------------------------------------------------------------
(* Specification: the header's month buttons.  The other specifications   *)
(* keep the month the page opens on and look at its first MaxDay days.     *)

\* the months shown: January 2024 and the MaxMonth months after it
MaxMonth == 47

\* the number of a Date's month, January 2024 being 0
MonthNumber(date) == 12 * (getFullYear(date) - 2024) + getMonth(date)

\* the "Previous month" button
PreviousMonth ==
  /\ Running
  /\ MonthNumber(currentMonth) > 0
  /\ currentMonth' = NewDate(getFullYear(currentMonth),
                             getMonth(currentMonth) - 1, 1)
  /\ lastOp' = "other"
  /\ UNCHANGED <<tz, storage, draftPlanText, plan, planErrors, completions,
                 manualOverrides, editingDate, editingDuration, editingError,
                 crashed>>

\* the "Next month" button
NextMonth ==
  /\ Running
  /\ MonthNumber(currentMonth) < MaxMonth
  /\ currentMonth' = NewDate(getFullYear(currentMonth),
                             getMonth(currentMonth) + 1, 1)
  /\ lastOp' = "other"
  /\ UNCHANGED <<tz, storage, draftPlanText, plan, planErrors, completions,
                 manualOverrides, editingDate, editingDuration, editingError,
                 crashed>>

\* the "Today" button
Today ==
  /\ Running
  /\ currentMonth' = NewDate(getFullYear(Now), getMonth(Now), 1)
  /\ lastOp' = "other"
  /\ UNCHANGED <<tz, storage, draftPlanText, plan, planErrors, completions,
                 manualOverrides, editingDate, editingDuration, editingError,
                 crashed>>

NextCalendar ==
  \/ PreviousMonth
  \/ NextMonth
  \/ Today

SpecCalendar == Init /\ [][NextCalendar]_vars

\* const calendar = useMemo(() => buildCalendar(currentMonth), ...)
calendar == buildCalendar(currentMonth)

\* the day numbers of the month shown
MonthDays ==
  FirstDay(MonthNumber(currentMonth))
    .. (FirstDay(MonthNumber(currentMonth) + 1) - 1)

\* C13: the grid of every month shown has a positive number of cells, the
\* smallest multiple of 7 that covers the leading days and the days of the
\* month; its first cell is a Sunday, its cells are consecutive days, every
\* day of the month is in exactly one cell and that cell is marked as of the
\* current month, and no other cell is.
C13_GridShape ==
  LET cells == DOMAIN calendar
      count == Len(calendar)
      leadingDays == FirstDay(MonthNumber(currentMonth)) % 7
      covered == leadingDays + DaysInMonth(MonthNumber(currentMonth))
  IN  /\ count > 0
      /\ count % 7 = 0
      /\ count >= covered
      /\ count - 7 < covered
      /\ LocalDay(calendar[1].date) % 7 = 0
      /\ \A i \in cells : calendar[i].date = LocalMidnight(LocalDay(calendar[i].date))
      /\ \A i \in cells : i < count =>
           LocalDay(calendar[i + 1].date) = LocalDay(calendar[i].date) + 1
      /\ \A day \in MonthDays :
           Cardinality({i \in cells : LocalDay(calendar[i].date) = day}) = 1
      /\ \A i \in cells :
           calendar[i].isCurrentMonth <=> LocalDay(calendar[i].date) \in MonthDays

\* February 2026, reached with the buttons: 28 days from a Sunday, four rows
C13_Witness ==
  /\ MonthNumber(currentMonth) = 25
  /\ Len(calendar) = 28
  /\ lastOp = "other"

\* C14: over the cells of the month shown (day indices 0 up to 30), the
\* default duration never decreases from one day to the next and always
\* lies between the start duration and the target duration.
C14_RampMonotoneBounded ==
  \A i \in DOMAIN calendar :
    calendar[i].isCurrentMonth =>
      /\ getDefaultDuration(calendar[i].date) >= DEFAULT_START_DURATION
      /\ getDefaultDuration(calendar[i].date) <= TARGET_DURATION
      /\ (i < Len(calendar) /\ calendar[i + 1].isCurrentMonth) =>
           getDefaultDuration(calendar[i].date)
             <= getDefaultDuration(calendar[i + 1].date)

\* a month of 31 days, reached with the buttons: the ramp runs from the
\* start duration on the 1st (index 0) to the target on the 31st (index 30)
C14_Witness ==
  /\ lastOp = "other"
  /\ MonthNumber(currentMonth) = 2
  /\ DaysInMonth(MonthNumber(currentMonth)) = DEFAULT_RAMP_DAYS + 1
  /\ getDefaultDuration(NewDate(getFullYear(currentMonth),
                                getMonth(currentMonth), 1))
       = DEFAULT_START_DURATION
  /\ getDefaultDuration(NewDate(getFullYear(currentMonth),
                                getMonth(currentMonth), 16)) = 35
  /\ getDefaultDuration(NewDate(getFullYear(currentMonth),
                                getMonth(currentMonth), 31))
       = TARGET_DURATION

\* C15: after "Apply plan", the note stored for a valid row is the content
\* of its note field: the text between the wrapping quotes with each
\* doubled quote read as one quote, commas included, also when that content
\* begins or ends with a quote.
C15_QuotedNotesKept ==
  lastOp = "apply" =>
    LET rows == LabelledRows(draftPlanText)
        valid == {i \in 1..Len(rows) : KindAt(rows, i) = "valid"}
    IN  \A i \in valid :
          (\A j \in valid : rows[j].day = rows[i].day => j <= i) =>
            plan[RowKey(rows[i].day)].note = rows[i].note

\* C16: every cell shows the duration and the note of the merged plan's
\* entry for its date when the merged plan has one; otherwise it shows no
\* note and either no duration or, while nothing is planned at all, the
\* default one.
C16_CellsShowMerged ==
  ~crashed =>
    \A date \in CellDates :
      LET key == formatKey(date)
      IN  IF key \in DOMAIN combinedPlan
            THEN /\ durationText(date) = <<combinedPlan[key].duration>>
                 /\ noteText(date) = combinedPlan[key].note
            ELSE /\ noteText(date) = <<>>
                 /\ \/ durationText(date) = <<>>
                    \/ /\ ~hasCustomPlanData
                       /\ durationText(date) = <<getDefaultDuration(date)>>

\* C17: in every zone, after "Apply plan" the cell of local day D shows the
\* duration of the valid row dated D, and a cell whose key is in the parsed
\* plan is the cell of a day some valid row is dated.
C17_RowOnItsDay ==
  lastOp = "apply" =>
    LET rows == LabelledRows(draftPlanText)
        valid == {i \in 1..Len(rows) : KindAt(rows, i) = "valid"}
    IN  /\ \A i \in valid :
             (\A j \in valid : rows[j].day = rows[i].day => j <= i) =>
               durationText(CellDate(rows[i].day)) = <<rows[i].duration>>
        /\ \A day \in Keys :
             formatKey(CellDate(day)) \in DOMAIN plan =>
               \E i \in valid : rows[i].day = day

=============================================================================
